---- MODULE Spec2Model ----
(***************************************************************************)
(* Model of src/server.py (JSReport MCP Server v3.0): the keyword          *)
(* classifier detect_report_type, the render helper _render_report and    *)
(* the exposed tools.                                                      *)
(*                                                                         *)
(* Text.  Python strings are modelled by TLA+ strings restricted to ASCII. *)
(* Each accented letter of the source is written as ONE stand-in           *)
(* character, so that lengths, substring positions and diacritic           *)
(* sensitivity of the classified texts are those of the source:            *)
(*     lower case   1 = a-acute   2 = a-circumflex  3 = a-tilde            *)
(*                  4 = c-cedilla 5 = e-acute       6 = e-circumflex       *)
(*                  7 = i-acute   8 = o-acute       9 = u-acute            *)
(*                  0 = o-tilde                                            *)
(*     upper case   ! @ # $ % ^ & * ( )  for the capitals of 1 .. 9, 0     *)
(* e.g. "t7tulo" is the keyword of line 63 and "T&TULO" its upper case.    *)
(***************************************************************************)
EXTENDS Integers, Sequences, FiniteSets, TLC

VARIABLES
    data,       \* classifier run: the dict handed to detect_report_type
    calls,      \* classifier run: templates returned by successive calls
    pc,         \* tool run: "idle" | "waiting" (request in flight) | "done"
    tool,       \* tool run: name of the tool being executed
    args,       \* tool run: the arguments of the invocation
    template,   \* tool run: the local template_name of the handler
    request,    \* tool run: outbound requests issued by this invocation
    result,     \* tool run: the dict returned to the caller
    outcome,    \* tool run: "none" | "returned" | "raised"
    response,   \* tool run: what the service did with the request
    inv,        \* concurrent run: the frame of each invocation in progress
    module_name, \* module run: __name__, "__main__" (script) | "server" (imported)
    line,        \* module run: index of the next module-level statement
    registered,  \* module run: names registered on the FastMCP instance
    serving,     \* module run: "no" | "yes" | "stopped" | "killed"
    listings     \* module run: listings handed to clients while serving

scriptVars == <<module_name, line, registered, serving, listings>>

vars == <<data, calls, pc, tool, args, template, request, result, outcome, response, inv,
          module_name, line, registered, serving, listings>>

-----------------------------------------------------------------------------
(* Bounds *)

MaxCalls == 2

MaxInvocations == 2

MaxListings == 2

-----------------------------------------------------------------------------
(* Python helpers *)

UpperChars == "ABCDEFGHIJKLMNOPQRSTUVWXYZ!@#$%^&*()"
LowerChars == "abcdefghijklmnopqrstuvwxyz1234567890"

\* str.lower() on one character
LowerChar(c) ==
    IF \E i \in 1..Len(UpperChars) : SubSeq(UpperChars, i, i) = c
    THEN LET i == CHOOSE j \in 1..Len(UpperChars) : SubSeq(UpperChars, j, j) = c
         IN  SubSeq(LowerChars, i, i)
    ELSE c

RECURSIVE Lower(_)
\* str.lower()
Lower(s) ==
    IF Len(s) = 0 THEN ""
    ELSE LowerChar(SubSeq(s, 1, 1)) \o Lower(SubSeq(s, 2, Len(s)))

\* `word in text` on strings
Contains(text, word) ==
    \E i \in 1..(Len(text) - Len(word) + 1) :
        SubSeq(text, i, i + Len(word) - 1) = word

\* dict.get(key, default)
DictGet(d, key, default) == IF key \in DOMAIN d THEN d[key] ELSE default

\* the empty dict
EmptyDict == [k \in {} |-> ""]

\* truth value of data.get("sections"): key present and list non-empty
HasSections(d) == "sections" \in DOMAIN d /\ Len(d["sections"]) > 0

\* Optional[T]: None is << >>, a value v is << v >>
None == << >>
Some(v) == << v >>

\* truth value of an Optional str / list argument: not None and not empty
Truthy(o) == o # None /\ Len(o[1]) > 0

\* truth value of a dict
TruthyDict(d) == DOMAIN d # {}

\* s[:n]
Prefix(s, n) == IF Len(s) <= n THEN s ELSE SubSeq(s, 1, n)

RECURSIVE Repeat(_, _)
\* c * n
Repeat(c, n) ==
    IF n = 0 THEN ""
    ELSE IF n % 2 = 0 THEN LET h == Repeat(c, n \div 2) IN h \o h
    ELSE c \o Repeat(c, n - 1)

B64Alphabet == "ABCDEFGHIJKLMNOPQRSTUVWXYZabcdefghijklmnopqrstuvwxyz0123456789+/"

B64Char(n) == SubSeq(B64Alphabet, n + 1, n + 1)

RECURSIVE B64Encode(_)
\* base64.b64encode(content).decode('utf-8') on a sequence of bytes
B64Encode(b) ==
    IF Len(b) = 0 THEN ""
    ELSE IF Len(b) = 1 THEN
        B64Char(b[1] \div 4) \o B64Char((b[1] % 4) * 16) \o "=="
    ELSE IF Len(b) = 2 THEN
        B64Char(b[1] \div 4) \o B64Char((b[1] % 4) * 16 + b[2] \div 16)
        \o B64Char((b[2] % 16) * 4) \o "="
    ELSE
        B64Char(b[1] \div 4) \o B64Char((b[1] % 4) * 16 + b[2] \div 16)
        \o B64Char((b[2] % 16) * 4 + b[3] \div 64) \o B64Char(b[3] % 64)
        \o B64Encode(SubSeq(b, 4, Len(b)))

\* httpx response.headers.get(name, default): header names are
\* case-insensitive, the model keeps them lower-cased
HeaderGet(h, name, default) == DictGet(h, Lower(name), default)

\* outcome of evaluating the body of a try block
Ok(v) == [ ok |-> TRUE, v |-> v, exc |-> "" ]
Raise(msg) == [ ok |-> FALSE, v |-> EmptyDict, exc |-> msg ]

\* what an invocation hands to its caller
Return(d) == [ outcome |-> "returned", result |-> d ]
Raised(msg) == [ outcome |-> "raised", result |-> [ exception |-> msg ] ]

\* a handler without the except clause: the exception reaches the caller
TryPropagate(body, handled) ==
    IF body.ok THEN Return(body.v) ELSE Raised(body.exc)

\* try: <body> except Exception as e: return <handled>
TryExcept(body, handled) ==
    IF body.ok THEN Return(body.v) ELSE Return(handled)

-----------------------------------------------------------------------------
(* detect_report_type *)

\* dict `keywords`, in insertion order
TemplateOrder ==
    << "wp-financeiro", "wp-abastecimentos", "wp-estoque",
       "wp-clientes", "wp-analitico", "wp-executivo" >>

Templates == { TemplateOrder[i] : i \in 1..Len(TemplateOrder) }

Keywords ==
    [ t \in Templates |->
        CASE t = "wp-financeiro" ->
               << "financeiro", "t7tulo", "receber", "pagar", "conta", "pagamento",
                  "receita", "despesa", "saldo", "banco", "transfer6ncia", "cont1bil",
                  "lan4amento", "fluxo de caixa", "dre" >>
          [] t = "wp-abastecimentos" ->
               << "abastecimento", "venda", "combust7vel", "litro", "gasolina",
                  "etanol", "diesel", "gnv", "bico", "bomba", "frentista" >>
          [] t = "wp-estoque" ->
               << "estoque", "produto", "invent1rio", "reajuste", "movimenta43o",
                  "entrada", "sa7da", "saldo", "armazenamento", "loja", "conveni6ncia" >>
          [] t = "wp-clientes" ->
               << "cliente", "cadastro", "grupo", "segmenta43o", "relacionamento",
                  "fidelidade", "cart3o", "cr5dito cliente" >>
          [] t = "wp-analitico" ->
               << "an1lise", "kpi", "indicador", "performance", "desempenho",
                  "comparativo", "tend6ncia", "evolu43o", "m5trica", "dashboard" >>
          [] t = "wp-executivo" ->
               << "executivo", "resumo", "vis3o geral", "consolidado", "gerencial",
                  "diretoria", "overview" >> ]

FallbackTemplate == "wp-data-report"

SectionsBonus == 10

\* text = f"{title} {report_type} {subtitle}", each field lower-cased
SearchText(d) ==
    Lower(DictGet(d, "reportTitle", "")) \o " " \o
    Lower(DictGet(d, "reportType", "")) \o " " \o
    Lower(DictGet(d, "reportSubtitle", ""))

\* a count of occurrences: a keyword found twice counts twice
KeywordScoreOccurrences(t, text) ==
    Cardinality({ p \in (1..Len(Keywords[t])) \X (1..Len(text)) :
                    /\ p[2] + Len(Keywords[t][p[1]]) - 1 <= Len(text)
                    /\ SubSeq(text, p[2], p[2] + Len(Keywords[t][p[1]]) - 1)
                           = Keywords[t][p[1]] })

\* sum(1 for word in words if word in text)
KeywordScore(t, text) ==
    Cardinality({ i \in 1..Len(Keywords[t]) : Contains(text, Keywords[t][i]) })

\* scores that leave the sections bonus out
ScoresNoBonus(d) ==
    LET text == SearchText(d)
    IN  [ t \in Templates |-> KeywordScore(t, text) ]

\* the dict `scores` after the sections bonus
Scores(d) ==
    LET text == SearchText(d)
        base == [ t \in Templates |-> KeywordScore(t, text) ]
    IN  IF HasSections(d)
        THEN [ base EXCEPT !["wp-executivo"] = @ + SectionsBonus ]
        ELSE base

\* max(scores.values())
MaxScore(scores) ==
    CHOOSE m \in { scores[t] : t \in Templates } :
        \A t \in Templates : scores[t] <= m

\* a scan that keeps the last key reaching the maximum
MaxKeyLast(scores) ==
    LET m == MaxScore(scores)
        i == CHOOSE j \in 1..Len(TemplateOrder) :
                 /\ scores[TemplateOrder[j]] = m
                 /\ \A k \in (j + 1)..Len(TemplateOrder) : scores[TemplateOrder[k]] < m
    IN  TemplateOrder[i]

\* max(scores, key=scores.get): first key, in iteration order, with the maximum
MaxKey(scores) ==
    LET m == MaxScore(scores)
        i == CHOOSE j \in 1..Len(TemplateOrder) :
                 /\ scores[TemplateOrder[j]] = m
                 /\ \A k \in 1..(j - 1) : scores[TemplateOrder[k]] < m
    IN  TemplateOrder[i]

\* a guard that accepts only two or more matches
HasMatchStrict(scores) == MaxScore(scores) > 1

\* a guard that is always taken
HasMatchAlways(scores) == TRUE

\* the guard `max(scores.values()) > 0`
HasMatch(scores) == MaxScore(scores) > 0

detect_report_type(d) ==
    LET scores == Scores(d)
    IN  IF HasMatch(scores) THEN MaxKey(scores) ELSE FallbackTemplate

-----------------------------------------------------------------------------
(* _render_report *)

\* length cap of the diagnostic, `response.text[:500]`
DetailsCap == 500

\* the `options` dict built from save_public
RenderOptions(save_public) ==
    IF save_public
    THEN [ reports |-> [ save |-> TRUE, public |-> TRUE ] ]
    ELSE EmptyDict

\* a payload that always carries an options key, empty when nothing is saved
RenderPayloadAlwaysOptions(template_name, d, save_public) ==
    [ template |-> [ name |-> template_name ], data |-> d,
      options |-> RenderOptions(save_public) ]

\* the JSON payload posted by _render_report
RenderPayload(template_name, d, save_public) ==
    LET options == RenderOptions(save_public)
        payload == [ template |-> [ name |-> template_name ], data |-> d ]
    IN  IF TruthyDict(options) THEN payload @@ [ options |-> options ] ELSE payload

\* a client that posts the payload a second time
SendTwice(method, path, payload) ==
    << [ method |-> method, path |-> path, json |-> payload ],
       [ method |-> method, path |-> path, json |-> payload ] >>

\* the outbound calls of one `with httpx.Client(...)` block: one request
Send(method, path, payload) ==
    << [ method |-> method, path |-> path, json |-> payload ] >>

\* base64 included only on explicit request
IncludeBase64OnRequest(permanent_link, return_base64) == return_base64

\* `if not permanent_link or return_base64`
IncludeBase64(permanent_link, return_base64) ==
    permanent_link = "" \/ return_base64

\* link keys that never report the link
LinkFieldsNone(permanent_link) == [ has_public_link |-> FALSE ]

\* link keys whose flag does not follow the link
LinkFieldsFlagOff(permanent_link) ==
    IF permanent_link # ""
    THEN [ pdf_url |-> permanent_link, has_public_link |-> FALSE ]
    ELSE [ has_public_link |-> FALSE ]

\* the link keys of a success result, `if permanent_link: ... else: ...`
LinkFields(permanent_link) ==
    IF permanent_link # ""
    THEN [ pdf_url |-> permanent_link, has_public_link |-> TRUE ]
    ELSE [ has_public_link |-> FALSE ]

\* a diagnostic that is not truncated
DetailsUncut(text) == IF text # "" THEN text ELSE "Sem detalhes"

\* `response.text[:500] if response.text else "Sem detalhes"`
Details(text) == IF text # "" THEN Prefix(text, DetailsCap) ELSE "Sem detalhes"

\* an error text that leaves the status out
HttpErrorPlain(status) == "Erro HTTP"

\* f"Erro HTTP {response.status_code}"
HttpError(status) == "Erro HTTP " \o ToString(status)

\* the success branch of _render_report (status 200)
RenderSuccess(template_name, return_base64, resp) ==
    LET permanent_link == HeaderGet(resp.headers, "Permanent-Link", "")
        base == [ success       |-> TRUE,
                  message       |-> "Relat8rio gerado com sucesso!",
                  template_used |-> template_name,
                  content_type  |-> HeaderGet(resp.headers, "content-type",
                                              "application/pdf"),
                  size_bytes    |-> Len(resp.content) ]
        linked == LinkFields(permanent_link) @@ base
    IN  IF IncludeBase64(permanent_link, return_base64)
        THEN [ pdf_base64 |-> B64Encode(resp.content) ] @@ linked
        ELSE linked

\* the else branch of _render_report (any other status)
RenderHttpFailure(template_name, resp) ==
    [ success            |-> FALSE,
      error              |-> HttpError(resp.status),
      details            |-> Details(resp.text),
      template_attempted |-> template_name ]

\* a try block that takes every 2xx status for success
RenderBodyAny2xx(template_name, return_base64, resp) ==
    IF resp.kind = "exception" THEN Raise(resp.message)
    ELSE IF resp.status \in 200..299
         THEN Ok(RenderSuccess(template_name, return_base64, resp))
         ELSE Ok(RenderHttpFailure(template_name, resp))

\* the body of the try block of _render_report, given the service behaviour
RenderBody(template_name, return_base64, resp) ==
    IF resp.kind = "exception" THEN Raise(resp.message)
    ELSE IF resp.status = 200
         THEN Ok(RenderSuccess(template_name, return_base64, resp))
         ELSE Ok(RenderHttpFailure(template_name, resp))

\* the except clause of _render_report
RenderExcept(e) ==
    [ success |-> FALSE, error |-> e, details |-> "Erro ao conectar com o JSReport" ]

\* what _render_report hands back once the service has behaved as `resp`
render_report(template_name, return_base64, resp) ==
    LET body == RenderBody(template_name, return_base64, resp)
    IN  TryExcept(body, RenderExcept(body.exc))

-----------------------------------------------------------------------------
(* generate_report_link, generate_smart_report, generate_report *)

DEFAULT_TEMPLATE == "wp-data-report"

\* an optional key set whenever the argument is not None
OptionalKeyNotNone(key, o) == IF o # None THEN (key :> o[1]) ELSE EmptyDict

\* one optional key of the data dict: `if arg: data[key] = arg`
OptionalKey(key, o) == IF Truthy(o) THEN (key :> o[1]) ELSE EmptyDict

\* the dict `data` built by the three report tools
BuildData(a, now) ==
    [ reportTitle    |-> a.report_title,
      reportSubtitle |-> a.report_subtitle,
      clientName     |-> a.client_name,
      period         |-> a.period,
      reportType     |-> a.report_type,
      generatedDate  |-> IF Truthy(a.generated_date)
                         THEN a.generated_date[1] ELSE now ]
    @@ OptionalKey("summaryCards", a.summary_cards)
    @@ OptionalKey("tableTitle", a.table_title)
    @@ OptionalKey("tableHeaders", a.table_headers)
    @@ OptionalKey("tableData", a.table_data)
    @@ OptionalKey("sections", a.sections)

\* `if result.get("success"): result["auto_selected"] = flag`
MarkAutoSelected(ret, flag) ==
    IF ret.outcome = "raised" THEN ret
    ELSE IF DictGet(ret.result, "success", FALSE)
         THEN Return([ auto_selected |-> flag ] @@ ret.result)
         ELSE ret

\* a default applied to None only: an empty name is passed on
ExplicitTemplateNoneOnly(o) == IF o # None THEN o[1] ELSE DEFAULT_TEMPLATE

\* `if not template_name: template_name = DEFAULT_TEMPLATE`
ExplicitTemplate(o) == IF Truthy(o) THEN o[1] ELSE DEFAULT_TEMPLATE

-----------------------------------------------------------------------------
(* render_custom_html *)

\* the JSON payload posted by render_custom_html
CustomPayload(html_content, d, recipe, save_public) ==
    LET options == RenderOptions(save_public)
        payload == [ template |-> [ content |-> html_content,
                                    engine  |-> "handlebars",
                                    recipe  |-> recipe ],
                     data     |-> IF d # None /\ TruthyDict(d[1]) THEN d[1]
                                  ELSE EmptyDict ]
    IN  IF TruthyDict(options) THEN payload @@ [ options |-> options ] ELSE payload

\* a success branch without the inline fallback
CustomSuccessNoFallback(resp) ==
    LET permanent_link == HeaderGet(resp.headers, "Permanent-Link", "")
        base == [ success      |-> TRUE,
                  message      |-> "HTML renderizado com sucesso!",
                  content_type |-> HeaderGet(resp.headers, "content-type",
                                             "application/pdf"),
                  size_bytes   |-> Len(resp.content) ]
    IN  IF permanent_link # ""
        THEN [ pdf_url |-> permanent_link, has_public_link |-> TRUE ] @@ base
        ELSE [ has_public_link |-> FALSE ] @@ base

\* the success branch of render_custom_html (status 200)
CustomSuccess(resp) ==
    LET permanent_link == HeaderGet(resp.headers, "Permanent-Link", "")
        base == [ success      |-> TRUE,
                  message      |-> "HTML renderizado com sucesso!",
                  content_type |-> HeaderGet(resp.headers, "content-type",
                                             "application/pdf"),
                  size_bytes   |-> Len(resp.content) ]
    IN  IF permanent_link # ""
        THEN [ pdf_url |-> permanent_link, has_public_link |-> TRUE ] @@ base
        ELSE [ has_public_link |-> FALSE,
               pdf_base64      |-> B64Encode(resp.content) ] @@ base

\* the else branch of render_custom_html, list_templates
HttpFailureWithDetails(resp) ==
    [ success |-> FALSE,
      error   |-> HttpError(resp.status),
      details |-> Details(resp.text) ]

\* an except clause that adds a details field
ToolExceptWithDetails(e) == [ success |-> FALSE, error |-> e, details |-> "Sem detalhes" ]

\* the except clause of the tools: {"success": False, "error": str(e)}
ToolExcept(e) == [ success |-> FALSE, error |-> e ]

render_custom_html(resp) ==
    LET body == IF resp.kind = "exception" THEN Raise(resp.message)
                ELSE IF resp.status = 200 THEN Ok(CustomSuccess(resp))
                     ELSE Ok(HttpFailureWithDetails(resp))
    IN  TryExcept(body, ToolExcept(body.exc))

-----------------------------------------------------------------------------
(* list_templates, get_template_info, list_saved_reports *)

\* JSON values as Python objects, tagged by type
JNull == [ t |-> "null" ]
JBool(b) == [ t |-> "bool", b |-> b ]
JStr(str) == [ t |-> "str", s |-> str ]
JList(items) == [ t |-> "list", items |-> items ]
JDict(d) == [ t |-> "dict", d |-> d ]

\* a body that response.json() cannot parse
JInvalid == [ t |-> "invalid" ]

\* response.json()
ParseJson(resp) ==
    IF resp.json.t = "invalid" THEN Raise("Expecting value") ELSE Ok(resp.json)

\* obj.get(key, default) on a parsed JSON value
JGet(obj, key, default) ==
    IF obj.t # "dict" THEN Raise("object has no attribute 'get'")
    ELSE Ok(DictGet(obj.d, key, default))

\* truth value of a parsed JSON value
JTruthy(v) ==
    CASE v.t = "null" -> FALSE
      [] v.t = "bool" -> v.b
      [] v.t = "str"  -> v.s # ""
      [] v.t = "list" -> Len(v.items) > 0
      [] v.t = "dict" -> TruthyDict(v.d)

RECURSIVE Chars(_)
\* the characters of a str, as iterated by a for loop
Chars(str) ==
    IF Len(str) = 0 THEN << >>
    ELSE << JStr(SubSeq(str, 1, 1)) >> \o Chars(SubSeq(str, 2, Len(str)))

\* the keys of a dict, as iterated by a for loop (the model's dicts are
\* unordered; only the empty one and singletons are iterated)
Keys(d) ==
    IF DOMAIN d = {} THEN << >>
    ELSE << JStr(CHOOSE k \in DOMAIN d : TRUE) >>

\* `for x in v`
Iterate(v) ==
    CASE v.t = "list" -> Ok(v.items)
      [] v.t = "str"  -> Ok(Chars(v.s))
      [] v.t = "dict" -> Ok(Keys(v.d))
      [] OTHER        -> Raise("object is not iterable")

\* the dict built for one template by list_templates
TemplateEntry(t) ==
    [ name    |-> JGet(t, "name", JNull).v,
      engine  |-> JGet(t, "engine", JNull).v,
      recipe  |-> JGet(t, "recipe", JNull).v,
      shortid |-> JGet(t, "shortid", JNull).v ]

\* the dict built for one report by list_saved_reports
ReportEntry(r) ==
    [ name         |-> JGet(r, "name", JNull).v,
      creationDate |-> JGet(r, "creationDate", JNull).v,
      contentType  |-> JGet(r, "contentType", JNull).v,
      public       |-> JGet(r, "public", JBool(FALSE)).v,
      _id          |-> JGet(r, "_id", JNull).v ]

\* the success branch of list_templates
ListTemplatesSuccess(resp) ==
    LET parsed == ParseJson(resp)
        value  == JGet(parsed.v, "value", JList(<< >>))
        items  == Iterate(value.v)
    IN  IF ~parsed.ok THEN parsed
        ELSE IF ~value.ok THEN value
        ELSE IF ~items.ok THEN items
        ELSE IF \E i \in 1..Len(items.v) : items.v[i].t # "dict"
             THEN Raise("object has no attribute 'get'")
        ELSE Ok([ success   |-> TRUE,
                  count     |-> Len(items.v),
                  templates |-> [ i \in 1..Len(items.v) |->
                                      TemplateEntry(items.v[i]) ] ])

list_templates(resp) ==
    LET body == IF resp.kind = "exception" THEN Raise(resp.message)
                ELSE IF resp.status = 200 THEN ListTemplatesSuccess(resp)
                     ELSE Ok(HttpFailureWithDetails(resp))
    IN  TryExcept(body, ToolExcept(body.exc))

\* the else branch of get_template_info, list_saved_reports
HttpFailure(resp) == [ success |-> FALSE, error |-> HttpError(resp.status) ]

\* a not-found result that does not name the template
NotFoundAnonymous(template_name) ==
    [ success |-> FALSE, error |-> "Template n3o encontrado" ]

\* f"Template '{template_name}' nao encontrado" (with a-tilde)
NotFound(template_name) ==
    [ success |-> FALSE,
      error   |-> "Template '" \o template_name \o "' n3o encontrado" ]

\* templates[0]
FirstOf(v) ==
    CASE v.t = "list" -> Ok(v.items[1])
      [] v.t = "str"  -> Ok(JStr(SubSeq(v.s, 1, 1)))
      [] v.t = "dict" -> Raise("KeyError: 0")
      [] OTHER        -> Raise("object is not subscriptable")

\* the success branch of get_template_info
TemplateInfoSuccess(template_name, resp) ==
    LET parsed  == ParseJson(resp)
        value   == JGet(parsed.v, "value", JList(<< >>))
        first   == FirstOf(value.v)
        content == JGet(first.v, "content", JNull)
    IN  IF ~parsed.ok THEN parsed
        ELSE IF ~value.ok THEN value
        ELSE IF ~JTruthy(value.v) THEN Ok(NotFound(template_name))
        ELSE IF ~first.ok THEN first
        ELSE IF ~content.ok THEN content
        ELSE Ok([ success  |-> TRUE,
                  template |-> [ has_content |-> JTruthy(content.v) ]
                               @@ TemplateEntry(first.v) ])

get_template_info(template_name, resp) ==
    LET body == IF resp.kind = "exception" THEN Raise(resp.message)
                ELSE IF resp.status = 200
                     THEN TemplateInfoSuccess(template_name, resp)
                     ELSE Ok(HttpFailure(resp))
    IN  TryExcept(body, ToolExcept(body.exc))

\* the success branch of list_saved_reports
ListReportsSuccess(resp) ==
    LET parsed == ParseJson(resp)
        value  == JGet(parsed.v, "value", JList(<< >>))
        items  == Iterate(value.v)
    IN  IF ~parsed.ok THEN parsed
        ELSE IF ~value.ok THEN value
        ELSE IF ~items.ok THEN items
        ELSE IF \E i \in 1..Len(items.v) : items.v[i].t # "dict"
             THEN Raise("object has no attribute 'get'")
        ELSE Ok([ success |-> TRUE,
                  count   |-> Len(items.v),
                  reports |-> [ i \in 1..Len(items.v) |->
                                    ReportEntry(items.v[i]) ] ])

list_saved_reports(resp) ==
    LET body == IF resp.kind = "exception" THEN Raise(resp.message)
                ELSE IF resp.status = 200 THEN ListReportsSuccess(resp)
                     ELSE Ok(HttpFailure(resp))
    IN  TryExcept(body, ToolExcept(body.exc))

-----------------------------------------------------------------------------
(* Classifier run: detect_report_type applied to a bounded set of dicts *)

Titles ==
    { "", "Contas a Receber Janeiro", "Vendas", "Saldo", "Relat8rio Mensal",
      "Titulo", "T&TULO", "KPI Clientes", "Resumo Executivo", "Fluxo de",
      "financeiro t7tulo receber pagar conta", "Estoque de Produtos" }

ReportTypes ==
    { "", "Financeiro", "Caixa", "pagamento receita despesa banco dre",
      "Abastecimentos" }

Subtitles == { "", "Resumo", "An1lise de Dados - WebPosto" }

\* one section of a multi-section report
Section == [ title |-> "Vendas", summaryCards |-> << >> ]

\* the values a present `sections` key may take
SectionLists == { << >>, << Section >>, << Section, Section >> }

TextFields(ti, ty, su) ==
    [ reportTitle |-> ti, reportType |-> ty, reportSubtitle |-> su ]

ClassifyInputs ==
    { EmptyDict }
    \cup { TextFields(ti, ty, su) :
             ti \in Titles, ty \in ReportTypes, su \in Subtitles }
    \cup { TextFields(in[1], in[2], in[3]) @@ [ sections |-> in[4] ] :
             in \in Titles \X ReportTypes \X Subtitles \X SectionLists }

Invocations == 1..MaxInvocations

\* the frame of an invocation that has not started
IdleFrame ==
    [ pc |-> "idle", tool |-> "none", args |-> EmptyDict, data |-> EmptyDict,
      template |-> "", request |-> << >>, response |-> EmptyDict,
      result |-> EmptyDict, outcome |-> "none" ]

\* the module-level statements of server.py that touch the FastMCP instance,
\* in file order: the decorated definitions and the entry point
Statements ==
    << [ kind |-> "tool",     name |-> "generate_report_link" ],
       [ kind |-> "tool",     name |-> "generate_smart_report" ],
       [ kind |-> "tool",     name |-> "generate_report" ],
       [ kind |-> "tool",     name |-> "list_templates" ],
       [ kind |-> "tool",     name |-> "get_template_info" ],
       [ kind |-> "tool",     name |-> "render_custom_html" ],
       [ kind |-> "tool",     name |-> "list_saved_reports" ],
       [ kind |-> "entry",    name |-> "__main__" ],
       [ kind |-> "resource", name |-> "list_templates_resource" ],
       [ kind |-> "resource", name |-> "get_template_example" ],
       [ kind |-> "resource", name |-> "get_usage_docs" ],
       [ kind |-> "resource", name |-> "get_template_keywords" ],
       [ kind |-> "prompt",   name |-> "generate_financial_report" ],
       [ kind |-> "prompt",   name |-> "analyze_fuel_sales" ],
       [ kind |-> "prompt",   name |-> "create_executive_summary" ],
       [ kind |-> "prompt",   name |-> "compare_periods" ],
       [ kind |-> "prompt",   name |-> "help_with_reports" ],
       [ kind |-> "prompt",   name |-> "quick_report_request" ] >>

\* the names the file registers with decorator @mcp.<kind>
Defined(kind) ==
    { Statements[i].name : i \in { j \in DOMAIN Statements : Statements[j].kind = kind } }

\* the instance of a server whose module a host has imported to the end and
\* is serving: the state in which tools are invoked
Hosted ==
    /\ module_name = "server"
    /\ line = Len(Statements) + 1
    /\ registered = Defined("tool") \cup Defined("resource") \cup Defined("prompt")
    /\ serving = "yes"
    /\ listings = << >>

IdleTool ==
    /\ inv = [ i \in Invocations |-> IdleFrame ]
    /\ pc = "idle"
    /\ tool = "none"
    /\ args = EmptyDict
    /\ template = ""
    /\ request = << >>
    /\ result = EmptyDict
    /\ outcome = "none"
    /\ response = EmptyDict

toolVars == <<pc, tool, args, template, request, result, outcome, response, inv,
              scriptVars>>

InitClassify ==
    /\ data \in ClassifyInputs
    /\ calls = << >>
    /\ IdleTool
    /\ Hosted

\* one call detect_report_type(data)
Classify ==
    /\ Len(calls) < MaxCalls
    /\ calls' = Append(calls, detect_report_type(data))
    /\ UNCHANGED <<data, toolVars>>

NextClassify == Classify

SpecClassify == InitClassify /\ [][NextClassify]_vars

-----------------------------------------------------------------------------
(* Tool run: arguments and service behaviours *)

\* datetime.now().strftime("%d/%m/%Y %H:%M:%S")
Clock == { "01/11/2026 10:00:00" }

Cards == << [ title |-> "Total a Receber", value |-> "R$ 125.450,00" ] >>

\* the optional arguments of the report tools: all omitted, all empty, all
\* given, only sections, everything but sections
OptionalArgs ==
    { [ generated_date |-> None, summary_cards |-> None, table_title |-> None,
        table_headers |-> None, table_data |-> None, sections |-> None ],
      [ generated_date |-> Some(""), summary_cards |-> Some(<< >>),
        table_title |-> Some(""), table_headers |-> Some(<< >>),
        table_data |-> Some(<< >>), sections |-> Some(<< >>) ],
      [ generated_date |-> Some("20/01/2026 08:30:00"),
        summary_cards |-> Some(Cards), table_title |-> Some("Movimentos"),
        table_headers |-> Some(<< "Data", "Valor" >>),
        table_data |-> Some(<< << "01/01", "10,00" >> >>),
        sections |-> Some(<< Section >>) ],
      [ generated_date |-> None, summary_cards |-> None, table_title |-> None,
        table_headers |-> None, table_data |-> None,
        sections |-> Some(<< Section, Section >>) ],
      [ generated_date |-> None, summary_cards |-> Some(Cards),
        table_title |-> Some("Movimentos"),
        table_headers |-> Some(<< "Data", "Valor" >>),
        table_data |-> Some(<< << "01/01", "10,00" >> >>),
        sections |-> None ] }

ToolTitles == { "Contas a Receber Janeiro", "Vendas", "Saldo", "Relat8rio Mensal" }

ToolReportTypes == { "", "Financeiro" }

\* the arguments shared by the three report tools
ReportArgs ==
    { [ report_title |-> ti, report_subtitle |-> "", client_name |-> "Posto Quality",
        period |-> "01/01/2026 - 31/01/2026", report_type |-> ty ] @@ o :
      ti \in ToolTitles, ty \in ToolReportTypes, o \in OptionalArgs }

TemplateNames == { None, Some(""), Some("wp-financeiro") }

RenderData == { EmptyDict, TextFields("Vendas", "", "") }

Link == "https://relatorio.qualityautomacao.com.br/reports/abc123/content"

\* response headers of a 200 answer, names lower-cased
HeaderSets ==
    { EmptyDict,
      [ h \in { "content-type" } |-> "application/pdf" ],
      [ h \in { "permanent-link" } |-> "" ],
      [ h \in { "permanent-link" } |-> Link ],
      [ h \in { "permanent-link", "content-type" } |->
            IF h = "permanent-link" THEN Link ELSE "text/html" ] }

\* response bodies of a 200 answer, as bytes: empty and "%PDF"
Contents == { << >>, << 37, 80, 68, 70 >> }

Statuses == { 200, 201, 404, 503 }

\* response bodies of an error answer, as text
ErrorTexts ==
    { "", "Service Unavailable",
      Repeat("x", DetailsCap), Repeat("x", DetailsCap + 1) }

\* str(e) of a transport failure
ExceptionTexts == { "", "Connection refused", "timed out" }

TemplateJson ==
    JDict([ name |-> JStr("wp-financeiro"), engine |-> JStr("handlebars"),
            recipe |-> JStr("chrome-pdf"), shortid |-> JStr("a1"),
            content |-> JStr("<html>") ])

PartialJson == JDict([ name |-> JStr("wp-estoque") ])

\* parsed bodies of a 200 answer of the odata endpoints
JsonBodies ==
    { JInvalid,
      JList(<< >>),
      JDict(EmptyDict),
      JDict([ value |-> JNull ]),
      JDict([ value |-> JStr("x") ]),
      JDict([ value |-> JList(<< >>) ]),
      JDict([ value |-> JList(<< JStr("x") >>) ]),
      JDict([ value |-> JList(<< TemplateJson >>) ]),
      JDict([ value |-> JList(<< PartialJson, TemplateJson >>) ]) }

Exceptions == { [ kind |-> "exception", message |-> m ] : m \in ExceptionTexts }

HttpResponse(status, headers, content, text, json) ==
    [ kind |-> "http", status |-> status, headers |-> headers,
      content |-> content, text |-> text, json |-> json ]

\* what the service may do with a POST /api/report
RenderBehaviours ==
    Exceptions
    \cup { HttpResponse(200, h, c, "", JInvalid) : h \in HeaderSets, c \in Contents }
    \cup { HttpResponse(st, EmptyDict, << >>, tx, JInvalid) :
             st \in Statuses \ { 200 }, tx \in ErrorTexts }

\* what the service may do with a GET /odata/...
LookupBehaviours ==
    Exceptions
    \cup { HttpResponse(200, EmptyDict, << >>, "", j) : j \in JsonBodies }
    \cup { HttpResponse(st, EmptyDict, << >>, tx, JInvalid) :
             st \in Statuses \ { 200 }, tx \in ErrorTexts }

RenderTools ==
    { "_render_report", "generate_report_link", "generate_smart_report",
      "generate_report", "render_custom_html" }

Behaviours(tl) == IF tl \in RenderTools THEN RenderBehaviours ELSE LookupBehaviours

-----------------------------------------------------------------------------
(* Tool run: the state machine *)

Init ==
    /\ data = EmptyDict
    /\ calls = << >>
    /\ IdleTool
    /\ Hosted

\* entry of an invocation up to the outbound call
Invoke(tl, a, d, tpl, reqs) ==
    /\ pc = "idle"
    /\ pc' = "waiting"
    /\ tool' = tl
    /\ args' = a
    /\ data' = d
    /\ template' = tpl
    /\ request' = reqs
    /\ result' = EmptyDict
    /\ outcome' = "none"
    /\ response' = EmptyDict
    /\ UNCHANGED <<calls, inv, scriptVars>>

\* _render_report(template_name, data, save_public, return_base64)
render_report_call ==
    \E tpl \in Templates \cup { FallbackTemplate }, d \in RenderData,
       sp \in BOOLEAN, rb \in BOOLEAN :
        Invoke("_render_report",
               [ save_public |-> sp, return_base64 |-> rb ], d, tpl,
               Send("POST", "/api/report", RenderPayload(tpl, d, sp)))

generate_report_link_call ==
    \E a \in ReportArgs, now \in Clock :
        LET d   == BuildData(a, now)
            tpl == detect_report_type(d)
        IN  Invoke("generate_report_link",
                   a @@ [ save_public |-> TRUE, return_base64 |-> FALSE ], d, tpl,
                   Send("POST", "/api/report", RenderPayload(tpl, d, TRUE)))

generate_smart_report_call ==
    \E a \in ReportArgs, rb \in BOOLEAN, now \in Clock :
        LET d   == BuildData(a, now)
            tpl == detect_report_type(d)
        IN  Invoke("generate_smart_report",
                   a @@ [ save_public |-> TRUE, return_base64 |-> rb ], d, tpl,
                   Send("POST", "/api/report", RenderPayload(tpl, d, TRUE)))

generate_report_call ==
    \E a \in ReportArgs, tn \in TemplateNames, rb \in BOOLEAN, now \in Clock :
        LET d   == BuildData(a, now)
            tpl == ExplicitTemplate(tn)
        IN  Invoke("generate_report",
                   a @@ [ template_name |-> tn, save_public |-> TRUE,
                          return_base64 |-> rb ], d, tpl,
                   Send("POST", "/api/report", RenderPayload(tpl, d, TRUE)))

render_custom_html_call ==
    \E d \in { None, Some(EmptyDict), Some([ nome |-> "Posto" ]) },
       rc \in { "chrome-pdf", "html" }, sp \in BOOLEAN :
        LET html == "<h1>{{nome}}</h1>"
        IN  Invoke("render_custom_html",
                   [ html_content |-> html, data |-> d, recipe |-> rc,
                     save_public |-> sp ], EmptyDict, "",
                   Send("POST", "/api/report", CustomPayload(html, d, rc, sp)))

list_templates_call ==
    Invoke("list_templates", EmptyDict, EmptyDict, "",
           Send("GET", "/odata/templates", EmptyDict))

get_template_info_call ==
    \E tn \in { "wp-financeiro", "inexistente" } :
        Invoke("get_template_info", [ template_name |-> tn ], EmptyDict, "",
               Send("GET", "/odata/templates",
                    [ filter |-> "name eq '" \o tn \o "'" ]))

list_saved_reports_call ==
    \E limit \in { 5, 20 } :
        Invoke("list_saved_reports", [ limit |-> limit ], EmptyDict, "",
               Send("GET", "/odata/reports",
                    [ top |-> limit, orderby |-> "creationDate desc" ]))

\* what the running tool hands to its caller once the service behaved as resp
ToolReturn(resp) ==
    CASE tool = "_render_report" ->
           render_report(template, args.return_base64, resp)
      [] tool = "generate_report_link" ->
           MarkAutoSelected(render_report(template, args.return_base64, resp), TRUE)
      [] tool = "generate_smart_report" ->
           MarkAutoSelected(render_report(template, args.return_base64, resp), TRUE)
      [] tool = "generate_report" ->
           MarkAutoSelected(render_report(template, args.return_base64, resp), FALSE)
      [] tool = "render_custom_html" -> render_custom_html(resp)
      [] tool = "list_templates" -> list_templates(resp)
      [] tool = "get_template_info" -> get_template_info(args.template_name, resp)
      [] tool = "list_saved_reports" -> list_saved_reports(resp)

\* the service answers (or the transport fails) and the handler runs to its end
Complete ==
    /\ pc = "waiting"
    /\ \E resp \in Behaviours(tool) :
        LET ret == ToolReturn(resp)
        IN  /\ response' = resp
            /\ result' = ret.result
            /\ outcome' = ret.outcome
    /\ pc' = "done"
    /\ UNCHANGED <<data, calls, tool, args, template, request, inv, scriptVars>>

\* the result has been handed over; the server takes the next invocation
NextInvocation ==
    /\ pc = "done"
    /\ pc' = "idle"
    /\ tool' = "none"
    /\ args' = EmptyDict
    /\ data' = EmptyDict
    /\ template' = ""
    /\ request' = << >>
    /\ result' = EmptyDict
    /\ outcome' = "none"
    /\ response' = EmptyDict
    /\ UNCHANGED <<calls, inv, scriptVars>>

Next ==
    \/ render_report_call
    \/ generate_report_link_call
    \/ generate_smart_report_call
    \/ generate_report_call
    \/ render_custom_html_call
    \/ list_templates_call
    \/ get_template_info_call
    \/ list_saved_reports_call
    \/ Complete
    \/ NextInvocation

Spec == Init /\ [][Next]_vars

-----------------------------------------------------------------------------
(* Concurrent run: several classify+render invocations in progress at once *)

\* the arguments of the concurrent invocations
ConcArgs ==
    { [ report_title |-> p[1], report_subtitle |-> "", client_name |-> "Posto Quality",
        period |-> "01/01/2026 - 31/01/2026", report_type |-> "",
        generated_date |-> None, summary_cards |-> None, table_title |-> None,
        table_headers |-> None, table_data |-> None, sections |-> p[2] ] :
      p \in { << "Vendas", None >>, << "Saldo", None >>,
              << "Vendas", Some(<< Section >>) >> } }

\* what the service may do with the request of a concurrent invocation
ConcBehaviours ==
    { [ kind |-> "exception", message |-> "timed out" ],
      HttpResponse(200, [ h \in { "permanent-link" } |-> Link ],
                   << 37, 80, 68, 70 >>, "", JInvalid),
      HttpResponse(503, EmptyDict, << >>, "Service Unavailable", JInvalid) }

\* a lookup of locals that lands in the frame of another invocation
LocalShared(i) == inv[CHOOSE j \in Invocations : inv[j].pc # "idle"]

\* the local variables of invocation i: its own frame
Local(i) == inv[i]

\* entry of invocation i up to the outbound call
ConcInvoke(i, tl, a, rb, now) ==
    LET d   == BuildData(a, now)
        tpl == detect_report_type(d)
    IN  /\ inv[i].pc = "idle"
        /\ inv' = [ inv EXCEPT ![i] =
                     [ pc |-> "waiting", tool |-> tl,
                       args |-> a @@ [ save_public |-> TRUE, return_base64 |-> rb ],
                       data |-> d, template |-> tpl,
                       request |-> Send("POST", "/api/report",
                                        RenderPayload(tpl, d, TRUE)),
                       response |-> EmptyDict, result |-> EmptyDict,
                       outcome |-> "none" ] ]
        /\ UNCHANGED <<data, calls, pc, tool, args, template, request, result,
                       outcome, response, scriptVars>>

ConcLink(i) ==
    \E a \in ConcArgs, now \in Clock :
        ConcInvoke(i, "generate_report_link", a, FALSE, now)

ConcSmart(i) ==
    \E a \in ConcArgs, now \in Clock :
        ConcInvoke(i, "generate_smart_report", a, TRUE, now)

\* the service answers invocation i and its handler runs to its end
ConcComplete(i) ==
    /\ inv[i].pc = "waiting"
    /\ \E resp \in ConcBehaviours :
        LET f   == Local(i)
            ret == MarkAutoSelected(
                       render_report(f.template, f.args.return_base64, resp), TRUE)
        IN  inv' = [ inv EXCEPT ![i].pc = "done", ![i].response = resp,
                                ![i].result = ret.result,
                                ![i].outcome = ret.outcome ]
    /\ UNCHANGED <<data, calls, pc, tool, args, template, request, result,
                   outcome, response, scriptVars>>

\* the result of invocation i has been handed over
ConcReturn(i) ==
    /\ inv[i].pc = "done"
    /\ inv' = [ inv EXCEPT ![i] = IdleFrame ]
    /\ UNCHANGED <<data, calls, pc, tool, args, template, request, result,
                   outcome, response, scriptVars>>

NextConc ==
    \E i \in Invocations :
        \/ ConcLink(i)
        \/ ConcSmart(i)
        \/ ConcComplete(i)
        \/ ConcReturn(i)

SpecConc == Init /\ [][NextConc]_vars

-----------------------------------------------------------------------------
(* Module run: the interpreter executes server.py from top to bottom *)

\* the state of the handlers, which no statement of the module run touches
handlerVars ==
    <<data, calls, pc, tool, args, template, request, result, outcome, response, inv>>

InitScript ==
    /\ data = EmptyDict
    /\ calls = << >>
    /\ IdleTool
    /\ module_name \in { "__main__", "server" }
    /\ line = 1
    /\ registered = { }
    /\ serving = "no"
    /\ listings = << >>

\* a decorated definition: @mcp.tool, @mcp.resource(...), @mcp.prompt
Register ==
    /\ serving \in { "no", "stopped" }
    /\ line \in DOMAIN Statements
    /\ Statements[line].kind # "entry"
    /\ registered' = registered \cup { Statements[line].name }
    /\ line' = line + 1
    /\ UNCHANGED <<module_name, serving, listings>>
    /\ UNCHANGED handlerVars

\* `if __name__ == "__main__": mcp.run()`: the call does not return while
\* the server runs, so the interpreter stays on this statement
EntryPoint ==
    /\ serving = "no"
    /\ line \in DOMAIN Statements
    /\ Statements[line].kind = "entry"
    /\ IF module_name = "__main__"
       THEN serving' = "yes" /\ line' = line
       ELSE serving' = serving /\ line' = line + 1
    /\ UNCHANGED <<module_name, registered, listings>>
    /\ UNCHANGED handlerVars

\* a host that imported the module serves its `mcp` object
HostRun ==
    /\ module_name = "server"
    /\ line = Len(Statements) + 1
    /\ serving = "no"
    /\ serving' = "yes"
    /\ UNCHANGED <<module_name, line, registered, listings>>
    /\ UNCHANGED handlerVars

\* a client asks the running server for its tools, resources or prompts
List(kind) ==
    /\ serving = "yes"
    /\ Len(listings) < MaxListings
    /\ listings' = Append(listings,
                          [ kind |-> kind, names |-> registered \cap Defined(kind) ])
    /\ UNCHANGED <<module_name, line, registered, serving>>
    /\ UNCHANGED handlerVars

\* mcp.run() returns (the transport closed): execution goes on after it
RunReturns ==
    /\ serving = "yes"
    /\ serving' = "stopped"
    /\ line' = IF line \in DOMAIN Statements THEN line + 1 ELSE line
    /\ UNCHANGED <<module_name, registered, listings>>
    /\ UNCHANGED handlerVars

\* mcp.run() ends with the process (interrupt, signal)
RunKilled ==
    /\ serving = "yes"
    /\ serving' = "killed"
    /\ UNCHANGED <<module_name, line, registered, listings>>
    /\ UNCHANGED handlerVars

NextScript ==
    \/ Register
    \/ EntryPoint
    \/ HostRun
    \/ \E kind \in { "tool", "resource", "prompt" } : List(kind)
    \/ RunReturns
    \/ RunKilled

SpecScript == InitScript /\ [][NextScript]_vars

-----------------------------------------------------------------------------
(* Properties of the classifier, checked under SpecClassify *)

\* per category, the number of its keywords found in the search text of `data`
MatchCount ==
    LET text == SearchText(data)
    IN  [ t \in Templates |-> KeywordScore(t, text) ]

\* the categories with at least one keyword in the search text
MatchedIn(mc) == { t \in Templates : mc[t] > 0 }

Returned == { calls[i] : i \in 1..Len(calls) }

\* C1 (as stated): a request with a non-empty `sections` list is always
\* classified wp-executivo, whatever its keywords.
C1_SectionsAlwaysExecutive ==
    HasSections(data) => Returned \subseteq { "wp-executivo" }

\* C1 (amended): a request with a non-empty `sections` list is classified
\* wp-executivo whenever every other category matches fewer keywords than
\* the executive category's own matches plus 10.
C1_SectionsExecutiveUnlessOutscored ==
    LET mc == MatchCount
    IN  ( /\ HasSections(data)
          /\ \A t \in Templates \ { "wp-executivo" } :
                 mc[t] < mc["wp-executivo"] + 10 )
        => Returned \subseteq { "wp-executivo" }

\* C1 witness: sections present, a keyword of another category in the text
\* ("Vendas"), and the call returned wp-executivo.
C1_Witness ==
    /\ HasSections(data)
    /\ Len(calls) > 0
    /\ calls[1] = "wp-executivo"
    /\ LET mc == MatchCount
       IN  mc["wp-abastecimentos"] > 0 /\ mc["wp-executivo"] = 0

\* C2 (as stated): when exactly one category has a keyword in the search
\* text, detect_report_type returns that category's template.
C2_SingleCategoryWins ==
    LET matched == MatchedIn(MatchCount)
    IN  \A t \in Templates : matched = { t } => Returned \subseteq { t }

\* C2 (amended): when exactly one category has a keyword in the search text
\* and `sections` is absent or empty (or that category is the executive
\* one), detect_report_type returns that category's template.
C2_SingleCategoryWinsWithoutSections ==
    LET matched == MatchedIn(MatchCount)
    IN  \A t \in Templates :
            ( matched = { t } /\ (~HasSections(data) \/ t = "wp-executivo") )
            => Returned \subseteq { t }

\* C2 witness: title "Contas a Receber Janeiro", type "Financeiro", no
\* sections, classified wp-financeiro.
C2_Witness ==
    /\ DictGet(data, "reportTitle", "") = "Contas a Receber Janeiro"
    /\ DictGet(data, "reportType", "") = "Financeiro"
    /\ DictGet(data, "reportSubtitle", "") = ""
    /\ ~HasSections(data)
    /\ Len(calls) > 0
    /\ calls[1] = "wp-financeiro"
    /\ MatchedIn(MatchCount) = { "wp-financeiro" }

\* C3 (as stated): when no category's keyword occurs in the search text,
\* detect_report_type returns wp-data-report.
C3_NoKeywordFallback ==
    MatchedIn(MatchCount) = {} => Returned \subseteq { "wp-data-report" }

\* C3 (amended): when no category's keyword occurs in the search text and
\* `sections` is absent or empty, detect_report_type returns wp-data-report.
C3_NoKeywordNoSectionsFallback ==
    ( ~HasSections(data) /\ MatchedIn(MatchCount) = {} )
    => Returned \subseteq { "wp-data-report" }

\* C3 witness: a request with a non-empty title without keywords, classified
\* wp-data-report.
C3_Witness ==
    /\ DictGet(data, "reportTitle", "") = "Relat8rio Mensal"
    /\ ~HasSections(data)
    /\ Len(calls) > 0
    /\ calls[1] = "wp-data-report"
    /\ MatchedIn(MatchCount) = {}

\* the category order the tie-break is stated for
DeclaredOrder ==
    << "wp-financeiro", "wp-abastecimentos", "wp-estoque",
       "wp-clientes", "wp-analitico", "wp-executivo" >>

\* the categories holding the maximum of the scores sc
LeadersIn(sc) == { t \in Templates : \A u \in Templates : sc[u] <= sc[t] }

\* C4: when two or more categories share the maximum nonzero score, every
\* call returns the one that comes first in the order financial, fuel-sales,
\* inventory, customers, analytics, executive, and repeated calls agree.
C4_TieBreakFirstDeclared ==
    LET sc      == Scores(data)
        leaders == LeadersIn(sc)
    IN  ( Cardinality(leaders) >= 2 /\ \E t \in leaders : sc[t] > 0 )
        => /\ \A r \in Returned :
                \E i \in 1..Len(DeclaredOrder) :
                    /\ DeclaredOrder[i] = r
                    /\ r \in leaders
                    /\ \A j \in 1..(i - 1) : DeclaredOrder[j] \notin leaders
           /\ Cardinality(Returned) <= 1

\* C4 witness: "Saldo" is a keyword of both wp-financeiro and wp-estoque;
\* two calls were made and both returned wp-financeiro.
C4_Witness ==
    /\ Len(calls) = 2
    /\ calls[1] = "wp-financeiro"
    /\ calls[2] = "wp-financeiro"
    /\ LET sc == Scores(data)
       IN  /\ LeadersIn(sc) = { "wp-financeiro", "wp-estoque" }
           /\ sc["wp-financeiro"] = 1

-----------------------------------------------------------------------------
(* Properties of the render helper and the tools, checked under Spec *)

\* the tools whose result is built by _render_report
ReportTools ==
    { "_render_report", "generate_report_link", "generate_smart_report",
      "generate_report" }

ExposedTools ==
    { "generate_report_link", "generate_smart_report", "generate_report",
      "list_templates", "get_template_info", "render_custom_html",
      "list_saved_reports" }

Done == pc = "done"

Succeeded == Done /\ outcome = "returned" /\ DictGet(result, "success", FALSE)

Answered(status) == Done /\ response.kind = "http" /\ response.status = status

HasKey(k) == k \in DOMAIN result

\* C5 (as stated): every successful render with save_public = false returns
\* pdf_base64 and no pdf_url, whatever the 200 response.
C5_NoPersistInlineOnly ==
    ( Succeeded /\ tool \in { "_render_report", "render_custom_html" }
      /\ ~args.save_public )
    => ( HasKey("pdf_base64") /\ ~HasKey("pdf_url") )

\* C5 (amended): every successful render with save_public = false whose 200
\* response carries no non-empty Permanent-Link header returns pdf_base64 and
\* no pdf_url.
C5_NoPersistNoLinkInlineOnly ==
    ( Succeeded /\ tool \in { "_render_report", "render_custom_html" }
      /\ ~args.save_public
      /\ DictGet(response.headers, "permanent-link", "") = "" )
    => ( HasKey("pdf_base64") /\ ~HasKey("pdf_url") )

\* C5 witness: _render_report with save_public = false and return_base64 =
\* false got a 200 without link and returned the payload of "%PDF".
C5_Witness ==
    /\ Succeeded
    /\ tool = "_render_report"
    /\ ~args.save_public
    /\ ~args.return_base64
    /\ "permanent-link" \notin DOMAIN response.headers
    /\ HasKey("pdf_base64")
    /\ result.pdf_base64 = "JVBERg=="
    /\ "options" \notin DOMAIN request[1].json

\* C6 (as stated): _render_report with save_public = true and a 200 response
\* that has a Permanent-Link header returns success with pdf_url, and
\* pdf_base64 exactly when return_base64 is true.
C6_PersistLinkHeader ==
    ( Answered(200) /\ tool \in ReportTools /\ args.save_public
      /\ "permanent-link" \in DOMAIN response.headers )
    => /\ outcome = "returned"
       /\ DictGet(result, "success", FALSE)
       /\ HasKey("pdf_url")
       /\ HasKey("pdf_base64") <=> args.return_base64

\* C6 (amended): _render_report with save_public = true and a 200 response
\* that has a non-empty Permanent-Link header returns success with pdf_url
\* equal to the header, and pdf_base64 exactly when return_base64 is true.
C6_PersistNonEmptyLink ==
    ( Answered(200) /\ tool \in ReportTools /\ args.save_public
      /\ DictGet(response.headers, "permanent-link", "") # "" )
    => /\ outcome = "returned"
       /\ DictGet(result, "success", FALSE)
       /\ HasKey("pdf_url")
       /\ result.pdf_url = response.headers["permanent-link"]
       /\ HasKey("pdf_base64") <=> args.return_base64

\* C6 witness: a forced-inline render with a link: both representations.
C6_Witness ==
    /\ Answered(200)
    /\ tool = "generate_smart_report"
    /\ args.save_public
    /\ args.return_base64
    /\ DictGet(response.headers, "permanent-link", "") = Link
    /\ HasKey("pdf_url")
    /\ HasKey("pdf_base64")
    /\ "options" \in DOMAIN request[1].json

\* C7: a success result whose response had no Permanent-Link header holds
\* pdf_base64 and no pdf_url, and every success result of a render holds
\* pdf_url or pdf_base64.
C7_InlineFallback ==
    ( Succeeded /\ tool \in RenderTools )
    => /\ "permanent-link" \notin DOMAIN response.headers
            => ( HasKey("pdf_base64") /\ ~HasKey("pdf_url") )
       /\ HasKey("pdf_url") \/ HasKey("pdf_base64")

\* C7 witness: render_custom_html asked to persist, the service sent no
\* link, the payload came back inline.
C7_Witness ==
    /\ Succeeded
    /\ tool = "render_custom_html"
    /\ args.save_public
    /\ "permanent-link" \notin DOMAIN response.headers
    /\ HasKey("pdf_base64")
    /\ ~HasKey("pdf_url")
    /\ ~result.has_public_link

\* C8: on a non-success status _render_report returns success = false, an
\* error text containing the status code, a diagnostic of at most 500
\* characters, and neither pdf_url nor pdf_base64.
C8_HttpFailureResult ==
    ( Done /\ tool \in ReportTools /\ response.kind = "http"
      /\ response.status \notin 200..299 )
    => /\ outcome = "returned"
       /\ HasKey("success") /\ result.success = FALSE
       /\ HasKey("error") /\ Contains(result.error, ToString(response.status))
       /\ HasKey("details") /\ Len(result.details) <= 500
       /\ ~HasKey("pdf_url")
       /\ ~HasKey("pdf_base64")

\* C8 witness: a 503 with a body of 501 characters, cut to 500.
C8_Witness ==
    /\ Answered(503)
    /\ tool = "_render_report"
    /\ Len(response.text) = 501
    /\ result.error = "Erro HTTP 503"
    /\ Len(result.details) = 500

\* C9: no exposed tool raises; each returns a dict with a boolean success
\* flag, a failed service call gives success = false, and every result with
\* success = false has an error field.
C9_ToolsNeverRaise ==
    ( Done /\ tool \in ExposedTools )
    => /\ outcome = "returned"
       /\ HasKey("success") /\ result.success \in BOOLEAN
       /\ ( response.kind = "exception" \/ response.status # 200 )
              => result.success = FALSE
       /\ result.success = FALSE => HasKey("error")

\* C9 witness: list_templates got a 200 whose body is not JSON and returned
\* a failure dict.
C9_Witness ==
    /\ Answered(200)
    /\ tool = "list_templates"
    /\ response.json = JInvalid
    /\ outcome = "returned"
    /\ result.success = FALSE
    /\ HasKey("error")

\* C10: an invocation issues at most one outbound request, and once the
\* request is out no step of the invocation (in particular the handling of
\* an error status or of a transport failure) issues another one.
C10_SingleRequestNoRetry ==
    /\ [](Len(request) <= 1)
    /\ [][pc = "waiting" => request' = request]_vars

\* C10 witness: a lookup ended by a transport failure after one request.
C10_Witness ==
    /\ Done
    /\ tool = "list_templates"
    /\ response.kind = "exception"
    /\ result.success = FALSE
    /\ Len(request) = 1

\* the JSON body of the request the running invocation has sent
Sent == request[1].json

\* C11: the render request carries the storage block reports = {save: true,
\* public: true} exactly when save_public is true; with save_public false it
\* has no `options` key at all.
C11_OptionsOnlyWhenPersist ==
    ( pc \in { "waiting", "done" } /\ tool \in RenderTools )
    => /\ Len(request) = 1
       /\ "options" \in DOMAIN Sent <=> args.save_public
       /\ "options" \in DOMAIN Sent
              => Sent.options = [ reports |-> [ save |-> TRUE, public |-> TRUE ] ]

\* C11 witness: render_custom_html called with save_public = false has sent
\* a request whose keys are template and data only.
C11_Witness ==
    /\ pc = "waiting"
    /\ tool = "render_custom_html"
    /\ ~args.save_public
    /\ DOMAIN Sent = { "template", "data" }

\* C12: every failure result of _render_report, after an HTTP error status
\* or after a transport exception, carries template_attempted equal to the
\* template_name argument.
C12_FailureCarriesTemplate ==
    ( Done /\ tool \in ReportTools /\ outcome = "returned"
      /\ ~DictGet(result, "success", FALSE) )
    => ( HasKey("template_attempted") /\ result.template_attempted = template )

\* C13: for every operation that calls the service, an HTTP failure is
\* returned as a failure result carrying the numeric status and the response
\* body cut to 500 characters.
C13_HttpFailureStatusAndBody ==
    ( Done /\ response.kind = "http" /\ response.status \notin 200..299 )
    => /\ outcome = "returned"
       /\ DictGet(result, "success", TRUE) = FALSE
       /\ HasKey("error") /\ Contains(result.error, ToString(response.status))
       /\ HasKey("details")
       /\ response.text # "" => result.details = Prefix(response.text, 500)

Failed == Done /\ outcome = "returned" /\ ~DictGet(result, "success", FALSE)

\* C14 (as stated): a transport failure yields a failure result without
\* status code and without diagnostic, and only an HTTP-error result carries
\* a details field.
C14_OnlyHttpFailureHasDetails ==
    ( Failed /\ tool \in RenderTools )
    => /\ response.kind = "exception"
            => ( result.error = response.message /\ ~HasKey("details") )
       /\ HasKey("details") => response.kind = "http"

\* C14 (amended): a transport failure of _render_report or render_custom_html
\* yields a failure result whose error is str(e), with no status code and no
\* response body, and whose keys differ from those of an HTTP-error result
\* (no template_attempted for _render_report, no details for
\* render_custom_html); the response body is carried only by HTTP-error
\* results, while _render_report's transport failure does carry a details
\* field holding the fixed text "Erro ao conectar com o JSReport".
C14_TransportFailureShape ==
    ( Failed /\ tool \in RenderTools )
    => /\ response.kind = "exception"
            => /\ result.error = response.message
               /\ ~HasKey("template_attempted")
               /\ tool \in ReportTools
                      => ( HasKey("details")
                           /\ result.details = "Erro ao conectar com o JSReport" )
               /\ tool = "render_custom_html" => ~HasKey("details")
       /\ response.kind = "http"
            => /\ Contains(result.error, ToString(response.status))
               /\ tool \in ReportTools => HasKey("template_attempted")
               /\ HasKey("details")
               /\ response.text # "" => result.details = Prefix(response.text, 500)

\* C14 witness: _render_report ended by "Connection refused".
C14_Witness ==
    /\ Failed
    /\ tool = "_render_report"
    /\ response.kind = "exception"
    /\ response.message = "Connection refused"
    /\ result.error = "Connection refused"
    /\ DOMAIN result = { "success", "error", "details" }

\* C15: get_template_info answered 200 with an empty template list returns
\* success = false and a "not found" error naming the template, and does not
\* raise.
C15_EmptyListNotFound ==
    ( Answered(200) /\ tool = "get_template_info"
      /\ response.json.t = "dict"
      /\ DictGet(response.json.d, "value", JList(<< >>)) = JList(<< >>) )
    => /\ outcome = "returned"
       /\ HasKey("success") /\ result.success = FALSE
       /\ HasKey("error")
       /\ Contains(result.error, "'" \o args.template_name \o "'")
       /\ Contains(result.error, "n3o encontrado")

\* C15 witness: the filter on "inexistente" came back as {"value": []}.
C15_Witness ==
    /\ Answered(200)
    /\ tool = "get_template_info"
    /\ args.template_name = "inexistente"
    /\ response.json = JDict([ value |-> JList(<< >>) ])
    /\ outcome = "returned"
    /\ result = [ success |-> FALSE,
                  error |-> "Template 'inexistente' n3o encontrado" ]

\* what invocation frame f returns when it runs alone: a function of its own
\* arguments and of the service's answer to its own request
AloneResult(f, now) ==
    LET a   == [ k \in DOMAIN f.args \ { "save_public", "return_base64" } |->
                     f.args[k] ]
        d   == BuildData(a, now)
        tpl == detect_report_type(d)
    IN  [ request |-> Send("POST", "/api/report", RenderPayload(tpl, d, TRUE)),
          result  |-> MarkAutoSelected(
                          render_report(tpl, f.args.return_base64, f.response),
                          TRUE).result ]

\* C16: in every interleaving of concurrent classify+render invocations, the
\* request and the result of each invocation are those it has when run alone
\* with the same arguments and the same answer to its own request.
C16_InvocationsIndependent ==
    \A i \in Invocations :
        inv[i].pc = "done"
        => \E now \in Clock :
               LET alone == AloneResult(inv[i], now)
               IN  /\ inv[i].request = alone.request
                   /\ inv[i].result = alone.result
                   /\ inv[i].outcome = "returned"

\* C16 witness: two invocations overlapped (both were in flight) and ended
\* differently, the first classified wp-abastecimentos and failed, the
\* second classified wp-executivo and succeeded.
C16_Witness ==
    /\ inv[1].pc = "done"
    /\ inv[2].pc = "done"
    /\ inv[1].template = "wp-abastecimentos"
    /\ inv[2].template = "wp-executivo"
    /\ inv[1].result.success = FALSE
    /\ inv[2].result.success = TRUE
    /\ inv[2].result.template_used = "wp-executivo"

\* the optional attachment keys of the data dict and the arguments they come from
AttachmentArg ==
    [ summaryCards |-> "summary_cards", tableTitle |-> "table_title",
      tableHeaders |-> "table_headers", tableData |-> "table_data",
      sections |-> "sections" ]

AutoTools == { "generate_report_link", "generate_smart_report" }

DataTools == AutoTools \cup { "generate_report" }

\* C17: in the data dict built and sent by the three report tools, each
\* optional attachment key is present only when the caller supplied a
\* non-null, non-empty value, and then holds that value; otherwise the key
\* is omitted.
C17_OptionalKeysOmitted ==
    ( pc \in { "waiting", "done" } /\ tool \in DataTools )
    => /\ Sent.data = data
       /\ \A k \in DOMAIN AttachmentArg :
            LET o == args[AttachmentArg[k]]
            IN  IF k \in DOMAIN data
                THEN o # None /\ Len(o[1]) > 0 /\ data[k] = o[1]
                ELSE o = None \/ Len(o[1]) = 0

\* C17 witness: generate_report called with every optional argument given
\* but empty has sent a data dict with the six mandatory keys only.
C17_Witness ==
    /\ pc = "waiting"
    /\ tool = "generate_report"
    /\ args.summary_cards = Some(<< >>)
    /\ args.table_title = Some("")
    /\ args.sections = Some(<< >>)
    /\ DOMAIN Sent.data = { "reportTitle", "reportSubtitle", "clientName",
                            "period", "reportType", "generatedDate" }

\* the keywords of category t that occur in text, as a set
KeywordsFound(t, text) ==
    { w \in { Keywords[t][i] : i \in 1..Len(Keywords[t]) } : Contains(text, w) }

\* C18: each category's score is the number of distinct keywords of its list
\* that occur in the lower-cased search text, plus 10 for wp-executivo when
\* sections is non-empty; and when the maximum score is above 0 the returned
\* category's score is at least every other category's score.
C18_ScoreIsDistinctKeywordCount ==
    LET text     == SearchText(data)
        expected == [ t \in Templates |->
                        Cardinality(KeywordsFound(t, text))
                        + IF t = "wp-executivo" /\ HasSections(data)
                          THEN 10 ELSE 0 ]
    IN  /\ Scores(data) = expected
        /\ (\E t \in Templates : expected[t] > 0)
              => \A r \in Returned :
                    /\ r \in Templates
                    /\ \A t \in Templates : expected[t] <= expected[r]

\* C18 witness: "resumo" occurs twice ("Resumo Executivo" / "Resumo"), the
\* executive category scores 2 (resumo, executivo) and is returned.
C18_Witness ==
    /\ DictGet(data, "reportTitle", "") = "Resumo Executivo"
    /\ DictGet(data, "reportType", "") = ""
    /\ DictGet(data, "reportSubtitle", "") = "Resumo"
    /\ ~HasSections(data)
    /\ Len(calls) > 0
    /\ calls[1] = "wp-executivo"
    /\ Scores(data)["wp-executivo"] = 2

\* C19: generate_report renders with the caller's template_name (the default
\* template when it is absent or empty) whatever the classifier would say,
\* and marks success results auto_selected = false; generate_report_link and
\* generate_smart_report render with detect_report_type's output for the
\* data they send and mark success results auto_selected = true, with
\* template_used equal to that output.
C19_TemplateSelection ==
    ( pc \in { "waiting", "done" } /\ tool \in DataTools )
    => LET chosen ==
               IF tool \in AutoTools THEN detect_report_type(Sent.data)
               ELSE IF args.template_name # None /\ args.template_name[1] # ""
                    THEN args.template_name[1]
                    ELSE DEFAULT_TEMPLATE
       IN  /\ Sent.template = [ name |-> chosen ]
           /\ Succeeded
                => /\ result.template_used = chosen
                   /\ HasKey("auto_selected")
                   /\ result.auto_selected = (tool \in AutoTools)

\* C19 witness: generate_report without template_name on a title the
\* classifier would route to wp-abastecimentos rendered with the default
\* template and reported auto_selected = false.
C19_Witness ==
    /\ Succeeded
    /\ tool = "generate_report"
    /\ args.template_name = None
    /\ args.report_title = "Vendas"
    /\ args.sections = None
    /\ Sent.template.name = "wp-data-report"
    /\ result.template_used = "wp-data-report"
    /\ result.auto_selected = FALSE

\* the response without its Permanent-Link header
WithoutLink(resp) ==
    [ resp EXCEPT !.headers =
        [ h \in DOMAIN resp.headers \ { "permanent-link" } |-> resp.headers[h] ] ]

\* C20: in every success result of a render, has_public_link is true exactly
\* when the key pdf_url is present, pdf_url is then the non-empty
\* Permanent-Link header of the response, and a response whose
\* Permanent-Link header is present but empty gives the result the same
\* response without the header gives: has_public_link false and the payload
\* inline.
C20_LinkFlagMatchesUrl ==
    ( Succeeded /\ tool \in RenderTools )
    => /\ HasKey("has_public_link")
       /\ result.has_public_link <=> HasKey("pdf_url")
       /\ HasKey("pdf_url")
            => /\ "permanent-link" \in DOMAIN response.headers
               /\ result.pdf_url = response.headers["permanent-link"]
               /\ result.pdf_url # ""
       /\ DictGet(response.headers, "permanent-link", Link) = ""
            => /\ result = ToolReturn(WithoutLink(response)).result
               /\ ~result.has_public_link
               /\ ~HasKey("pdf_url")
               /\ HasKey("pdf_base64")
               /\ result.pdf_base64 = B64Encode(response.content)

\* C20 witness: a persisting render answered with an empty Permanent-Link
\* header returned the payload inline and no link.
C20_Witness ==
    /\ Succeeded
    /\ tool = "_render_report"
    /\ args.save_public
    /\ ~args.return_base64
    /\ "permanent-link" \in DOMAIN response.headers
    /\ response.headers["permanent-link"] = ""
    /\ Len(response.content) > 0
    /\ ~result.has_public_link
    /\ HasKey("pdf_base64")
    /\ ~HasKey("pdf_url")

\* C21: only status 200 is success, for every operation: a success result
\* comes from a 200 response, and any other status, other 2xx codes
\* included, gives success = false and error "Erro HTTP <status>", with no
\* key besides the failure's own (so no link, no payload, no listing).
C21_Only200IsSuccess ==
    /\ Succeeded => Answered(200)
    /\ ( Done /\ response.kind = "http" /\ response.status # 200 )
       => /\ outcome = "returned"
          /\ HasKey("success") /\ result.success = FALSE
          /\ HasKey("error")
          /\ result.error = "Erro HTTP " \o ToString(response.status)
          /\ DOMAIN result \subseteq
                 { "success", "error", "details", "template_attempted" }

\* C21 witness: a persisting render answered 201 Created returned the
\* failure result "Erro HTTP 201" without link or payload.
C21_Witness ==
    /\ Answered(201)
    /\ tool = "generate_report_link"
    /\ args.save_public
    /\ result.success = FALSE
    /\ result.error = "Erro HTTP 201"
    /\ ~HasKey("pdf_url")
    /\ ~HasKey("pdf_base64")

\* C22: when server.py runs as a script, every resource and prompt it defines
\* is registered on the FastMCP instance whenever mcp.run() is serving.
C22_RegisteredBeforeServing ==
    ( module_name = "__main__" /\ serving = "yes" )
    => Defined("resource") \cup Defined("prompt") \subseteq registered

====
